---- MODULE Spec2Model ----
(***************************************************************************)
(* TravelAgent backend: the tool handlers of custom_tools.py and           *)
(* hotel_requests.py with their process-wide caches, and the chat          *)
(* orchestration of main.py / openai_service.py.                           *)
(*                                                                         *)
(* A handler is an asyncio coroutine: the code between two awaits of       *)
(* network I/O runs without interruption, so every action below is one     *)
(* such stretch.  Several sessions (WebSocket connections) interleave at   *)
(* the awaits and share the module-level caches.                           *)
(***************************************************************************)
EXTENDS Integers, Sequences, FiniteSets, TLC

\* ------------------------------------------------------------------ bounds
NumSessions == 2
MaxCalls == 4
MaxHotels == 11
MaxMessages == 2

\* ------------------------------------------------------- program constants
BATCH_SIZE == 5
HTTP_OK == 200
HTTP_CREATED == 201

Sessions == 1..NumSessions

\* Python's None and the empty string: the falsy values of a string argument.
None == ""

AUTH_ENDPOINT == "POST /v1/security/oauth2/token"
FLIGHT_SEARCH_URL == "GET /v2/shopping/flight-offers"
BOOKING_URL == "POST /v1/booking/flight-orders"
HOTEL_BY_CITY_URL == "GET /v1/reference-data/locations/hotels/by-city"
HOTEL_BY_HOTEL_ID_URL == "GET /v1/reference-data/locations/hotels/by-hotels"
HOTEL_BY_GEOCODE_URL == "GET /v1/reference-data/locations/hotels/by-geocode"
HOTEL_BOOKING_URL == "POST /v2/booking/hotel-orders"
HOTEL_OFFERS_URL == "GET /v3/shopping/hotel-offers"

MsgMissingSearchParams == "Missing required flight search parameters."
MsgSearchFailed == "Failed to search for flights: <provider errors>"
MsgNoFlights == "No flights available for the specified criteria."
MsgGeneric == "We are currently unable to process your request. Please contact an agent or try again later."
MsgMissingFlightId == "Missing flight ID. Please select a flight before booking."
MsgMissingPassenger == "Missing passenger name. Please provide the full name of the passenger."
MsgCacheMiss == "Flight data expired or missing. Please search again."
MsgBookFailed == "Failed to book flight: <provider errors>"
MsgBookingConfirmed == "Booking Confirmed! Booking ID: <order id>"
MsgNoDiscriminator == "Please provide city code, geocode, or hotel ID."
MsgInvalidCity == "Invalid city code: '<city_code>'. Provide a valid 3-letter IATA city code (e.g., 'SFO')."
MsgHotelSearchFailed == "Failed to search for hotels: <provider errors>"
MsgNoHotels == "No hotels available for the specified criteria."
MsgNoMoreHotels == "No more hotels available."
MsgMissingHotelIds == "Missing hotel IDs."
MsgMissingDates == "Missing check-in or check-out date."
MsgCheckInPast == "Check-in date must be in the future."
MsgCheckOutOrder == "Check-out date must be after the check-in date."
MsgOffersFailed == "Failed to get offers: <provider errors>"
MsgNoOffers == "No available offers for the selected hotels."
MsgMissingOfferId == "Missing hotel offer ID. Please select a hotel before booking."
MsgMissingGuests == "Missing guest information."
MsgHotelBookFailed == "Failed to book hotel: <provider errors>"

\* ------------------------------------------------------------ value shapes
\* What a handler returns: a dict with a status, a bare str, or nothing yet.
NoResult == [type |-> "none", status |-> "none", message |-> "", data |-> <<>>]
ErrorResult(msg) == [type |-> "dict", status |-> "error", message |-> msg, data |-> <<>>]
EmptyResult(msg) == [type |-> "dict", status |-> "empty", message |-> msg, data |-> <<>>]
SuccessResult(items) == [type |-> "dict", status |-> "success", message |-> "", data |-> items]
StrResult(msg) == [type |-> "str", status |-> "none", message |-> msg, data |-> <<>>]
\* The handler raised instead of returning.
Raised(exception) == [type |-> "raise", status |-> "none", message |-> exception, data |-> <<>>]

\* A provider flight offer, reduced to the fields the handlers read.  Variant
\* 1 is a direct flight, variant 2 a connection at another price.
Segment(n) ==
    [id |-> n, carrierCode |-> "IB", departure |-> n, arrival |-> n + 1]

FlightOffer(i, v) ==
    [id |-> i,
     validatingAirlineCodes |-> <<"IB">>,
     price |-> [currency |-> "EUR", total |-> 100 * v, base |-> 90 * v],
     segments |-> IF v = 1 THEN <<Segment(1)>> ELSE <<Segment(1), Segment(2)>>]

NoFlight ==
    [id |-> None, validatingAirlineCodes |-> <<>>,
     price |-> [currency |-> "", total |-> 0, base |-> 0], segments |-> <<>>]

NoBody ==
    [id |-> None, segments |-> <<>>,
     price |-> [currency |-> "", total |-> 0, base |-> 0],
     firstName |-> "", lastName |-> ""]

\* A provider answer: an HTTP status with a JSON body, or an exception raised
\* by the connection or by response.json().
HttpResponse(status, data) == [exc |-> FALSE, status |-> status, data |-> data]
NetworkException == [exc |-> TRUE, status |-> 0, data |-> <<>>]
\* An answer whose status is neither 200 nor 201.
HttpError == HttpResponse(400, <<>>)

FlightIds == {"FL1", "FL2"}

\* An offer the provider sent without validating airline codes: the
\* projection of the result list raises IndexError on it.
UnvalidatedOffer == [FlightOffer("FL2", 1) EXCEPT !.validatingAirlineCodes = <<>>]

FlightLists ==
    { <<>>,
      <<FlightOffer("FL1", 1)>>,
      <<FlightOffer("FL1", 2), FlightOffer("FL2", 1)>>,
      <<UnvalidatedOffer>> }

FlightSearchResponses ==
    { HttpResponse(HTTP_OK, l) : l \in FlightLists }
        \cup { HttpError, NetworkException }

BookingResponses ==
    { HttpResponse(HTTP_CREATED, <<>>), HttpError,
      NetworkException }

\* A provider hotel record, reduced to the fields the handlers read; name
\* tells the records of different result sets apart.  A record without the
\* hotelId key has hotelId 0.
Hotel(i, v) == [hotelId |-> i, name |-> v]
MalformedHotel == [hotelId |-> 0, name |-> 0]

Ascending(n, v) == [i \in 1..n |-> Hotel(i, v)]

HotelCounts == {BATCH_SIZE, BATCH_SIZE + 1, MaxHotels}

HotelLists ==
    { Ascending(n, 1) : n \in HotelCounts }
        \cup { <<>>,
               <<Hotel(2, 2), Hotel(1, 2)>>,
               <<Hotel(1, 1), Hotel(2, 1), Hotel(1, 2)>>,
               <<Hotel(1, 1), MalformedHotel>> }

HotelSearchResponses ==
    { HttpResponse(HTTP_OK, l) : l \in HotelLists }
        \cup { HttpError, NetworkException }

\* city_code, latitude, longitude and hotel_ids of a search_hotels call; 0 and
\* <<>> are the falsy values of a number and of a list.
HotelSearchArgs ==
    { a \in [city_code : {None, "NY", "PAR"}, latitude : {0, 48},
             longitude : {0, 2}, hotel_ids : {<<>>, <<1>>}] :
        LET given == (IF a.city_code # None THEN 1 ELSE 0)
                        + (IF a.latitude # 0 THEN 1 ELSE 0)
                        + (IF a.longitude # 0 THEN 1 ELSE 0)
                        + (IF a.hotel_ids # <<>> THEN 1 ELSE 0)
        IN \/ given <= 1
           \/ given = 2 /\ a.latitude # 0 /\ a.longitude # 0 }

\* len(city_code) of the codes above.
len(city_code) ==
    CASE city_code = "PAR" -> 3
      [] city_code = "NY" -> 2
      [] OTHER -> 0

\* The character "-": it sorts before every digit.
Dash == 0 - 1

\* Dates are strings "MM-DD" of one year, held as their characters; the empty
\* string is <<>>.  Today is what datetime.today() formats to.
Yesterday == <<1, 0, Dash, 3, 1>>
Today == <<1, 1, Dash, 0, 1>>
Tomorrow == <<1, 1, Dash, 0, 2>>
DayAfter == <<1, 1, Dash, 0, 3>>
\* Two dates of last February written without the leading zero of the month.
FebFirst == <<2, Dash, 0, 1>>
FebFifth == <<2, Dash, 0, 5>>

\* Python's < on strings: lexicographic, a proper prefix is smaller.
RECURSIVE StrLess(_, _)
StrLess(a, b) ==
    IF b = <<>> THEN FALSE
    ELSE IF a = <<>> THEN TRUE
    ELSE IF Head(a) # Head(b) THEN Head(a) < Head(b)
    ELSE StrLess(Tail(a), Tail(b))

HotelOfferArgs ==
    { a \in [hotel_ids : {<<>>, <<1>>},
             check_in_date : {<<>>, Yesterday, Today, Tomorrow, FebFirst},
             check_out_date : {<<>>, Today, Tomorrow, FebFifth},
             adults : {1}] :
        a.hotel_ids = <<>> => (a.check_in_date = Today /\ a.check_out_date = Tomorrow) }

\* One entry of the hotel-offers answer; an entry whose offer lacks the room
\* description is not complete.
HotelOffer(id, complete) == [offer_id |-> id, hotelId |-> 1, complete |-> complete]

OfferLists ==
    { <<>>,
      <<HotelOffer("OF1", TRUE)>>,
      <<HotelOffer("OF2", FALSE)>>,
      <<HotelOffer("OF2", FALSE), HotelOffer("OF1", TRUE)>> }

OfferResponses ==
    { HttpResponse(HTTP_OK, l) : l \in OfferLists }
        \cup { HttpError, NetworkException }

\* A guest of a book_hotel call; a missing key is None.
Guest(email) == [firstName |-> "John", lastName |-> "Smith", email |-> email]

BookHotelArgs ==
    [offer_id : {None, "OF1"},
     guests : {<<>>, <<Guest("john@example.com")>>, <<Guest(None)>>}]

PassengerNames == { None, "John", "John Smith" }

\* str.split() on the names above.
split(name) ==
    CASE name = "John Smith" -> <<"John", "Smith">>
      [] name = "John" -> <<"John">>
      [] OTHER -> <<>>

FlightSearchArgs ==
    { a \in [origin : {None, "JFK"}, destination : {None, "MAD"},
             departure_date : {None, "2025-06-01"}, max_price : {0, 800}] :
        \/ a.origin # None /\ a.destination # None /\ a.departure_date # None
        \/ Cardinality({f \in {"origin", "destination", "departure_date"} :
                            a[f] = None}) = 1 /\ a.max_price = 0 }

BookFlightArgs == [booking_id : FlightIds \cup {None}, passenger_name : PassengerNames]

NoArgs == [none |-> TRUE]

\* params of a handler that has built no query string.
NoParams == [k \in {} |-> ""]

\* writer 0: no session.
NoFrame == [op |-> "none", args |-> NoArgs, flight |-> NoFlight,
            writer |-> 0, body |-> NoBody, url |-> "", params |-> NoParams]

\* ------------------------------------------------------ conversation shapes
\* The names main.py maps to handlers, and the names it advertises to the model.
FUNCTION_MAP ==
    {"search_flights", "book_flight", "search_hotels", "book_hotel",
     "search_hotel_offers"}
AVAILABLE_FUNCTIONS ==
    {"search_flights", "book_flight", "search_hotels", "get_next_hotel_results",
     "search_hotel_offers", "book_hotel"}

SYSTEM_PROMPT == "You are a travel assistant"
AckText == "Processing your request..."
FallbackText == "I'm sorry, I couldn't understand that. Please try again."

\* A ChatMessage.  The content of a tool message is the JSON text of payload;
\* any other message has no payload.
ChatMessage(role, content, tool_calls, tool_call_id, payload) ==
    [role |-> role, content |-> content, tool_calls |-> tool_calls,
     tool_call_id |-> tool_call_id, payload |-> payload]
NoPayload == [type |-> "none", status |-> "none", message |-> ""]
SystemMessage == ChatMessage("system", SYSTEM_PROMPT, <<>>, None, NoPayload)
UserMessage == ChatMessage("user", "Find me a trip", <<>>, None, NoPayload)

\* The text frames a client sends: text that is not JSON, a conversation
\* without a system message, and one with it.
Inbound ==
    { [json_ok |-> FALSE, messages |-> <<>>],
      [json_ok |-> TRUE, messages |-> <<UserMessage>>],
      [json_ok |-> TRUE, messages |-> <<SystemMessage, UserMessage>>],
      [json_ok |-> TRUE, messages |-> <<UserMessage, SystemMessage, SystemMessage>>] }

\* The positions of the system messages of a history.
SystemPositions(messages) == { k \in DOMAIN messages : messages[k].role = "system" }

\* The frames of a client that sends no system message, or one and first.
InboundOfUsualClient ==
    { data \in Inbound : SystemPositions(data.messages) \subseteq {1} }

\* One tool call of a model reply.  name None: the call has no "name" key;
\* json_ok: the arguments text is JSON; sig_ok: its keys fit the parameters
\* of the handler; kwargs: its value.
ToolCall(id, name, json_ok, sig_ok, kwargs) ==
    [id |-> id, function |-> [name |-> name,
                              arguments |-> [json_ok |-> json_ok, sig_ok |-> sig_ok,
                                             kwargs |-> kwargs]]]

FlightSearchKwargs ==
    [origin |-> "JFK", destination |-> "MAD", departure_date |-> "2025-06-01",
     max_price |-> 800]
BookFlightKwargs == [booking_id |-> "FL1", passenger_name |-> "John Smith"]
HotelSearchKwargs == [city_code |-> "PAR", latitude |-> 0, longitude |-> 0, hotel_ids |-> <<>>]
HotelOfferKwargs ==
    [hotel_ids |-> <<1>>, check_in_date |-> Tomorrow, check_out_date |-> DayAfter,
     adults |-> 1]
BookHotelKwargs == [offer_id |-> "OF1", guests |-> <<Guest("john@example.com")>>]

\* The tool-call lists of the model replies.
ToolCallLists ==
    { <<ToolCall("call_1", "search_flights", TRUE, TRUE, FlightSearchKwargs),
        ToolCall("call_2", "book_flight", TRUE, TRUE, BookFlightKwargs)>>,
      <<ToolCall("call_1", "search_hotels", TRUE, TRUE, HotelSearchKwargs),
        ToolCall("call_2", "get_next_hotel_results", TRUE, TRUE, NoArgs)>>,
      <<ToolCall("call_1", "search_hotel_offers", TRUE, TRUE, HotelOfferKwargs),
        ToolCall("call_2", "book_hotel", TRUE, TRUE, BookHotelKwargs)>>,
      <<ToolCall("call_1", "cancel_flight", TRUE, TRUE, NoArgs),
        ToolCall("call_2", None, TRUE, TRUE, NoArgs)>>,
      <<ToolCall("call_1", None, TRUE, TRUE, NoArgs)>>,
      <<ToolCall("call_1", "book_flight", FALSE, TRUE, NoArgs),
        ToolCall("call_2", "search_hotel_offers", TRUE, FALSE, NoArgs)>>,
      <<ToolCall("call_1", "search_flights", TRUE, TRUE,
                 [FlightSearchKwargs EXCEPT !.max_price = 0])>> }

\* What the model API yields: the first choice's message, or an exception.
Reply(content, tool_calls) == [exc |-> FALSE, content |-> content, tool_calls |-> tool_calls]
ApiFailure == [exc |-> TRUE, content |-> None, tool_calls |-> <<>>]
ModelReplies ==
    { Reply("Here is what I found", <<>>), ApiFailure }
        \cup { Reply(None, l) : l \in ToolCallLists }
        \cup { Reply("Let me look that up",
                     <<ToolCall("call_1", "search_flights", TRUE, TRUE, FlightSearchKwargs)>>) }

\* The dict generate_chat_response returns; a key it lacks reads as None or
\* <<>> through dict.get.
ResponseDict(role, content, tool_calls, error) ==
    [role |-> role, content |-> content, tool_calls |-> tool_calls, error |-> error]
NoResponse == ResponseDict(None, None, <<>>, None)

\* A frame of the websocket towards the client.
Frame(type, message) == [type |-> type, message |-> message]

\* A websocket_endpoint coroutine that has not started.  function_name None:
\* the local is not bound yet.
NoConn ==
    [at |-> "closed", messages |-> <<>>, replies |-> <<>>, response |-> NoResponse,
     follow_up_messages |-> <<>>, request |-> <<>>, i |-> 0, handled |-> <<>>,
     sent |-> <<>>, received |-> 0, function_name |-> None]

VARIABLES
    flight_cache,    \* custom_tools.flight_cache: flight id -> cached offer
    flight_writer,   \* history: flight id -> session whose search cached it
    hotel_cache,     \* hotel_requests.hotel_cache: the cached hotels, in dict order
    hotel_pointer,   \* hotel_requests.hotel_pointer, Unbound until first assigned
    served,          \* history: the hotels returned by paging since the cache was last cleared
    nbatches,        \* history: the non-empty batches paged out since then
    hotel_writer,    \* history: the session whose search filled hotel_cache, 0 for none
    offers_seen,     \* history: per session, the offer ids its searches returned
    pc,              \* per session: where its handler coroutine stands
    frame,           \* per session: the running handler's arguments and locals
    result,          \* per session: what the handler returned
    net,             \* per session: the requests the running handler has sent
    ncalls,          \* handler calls started so far
    conn,            \* per session: the state of its websocket_endpoint coroutine
    active_connections  \* manager.active_connections

flight_vars == <<flight_cache, flight_writer>>
hotel_vars == <<hotel_cache, hotel_pointer, served, nbatches, hotel_writer>>
cache_vars == <<flight_vars, hotel_vars>>

vars == <<flight_cache, flight_writer, hotel_cache, hotel_pointer, served,
          nbatches, hotel_writer, offers_seen, pc, frame, result, net, ncalls, conn,
          active_connections>>
chat_vars == <<conn, active_connections>>
handler_vars == <<pc, frame, result, net>>

\* hotel_pointer before any assignment: reading it raises NameError.
Unbound == 0 - 1

EmptyDict == [k \in {} |-> NoFlight]

Init ==
    /\ flight_cache = EmptyDict
    /\ flight_writer = [k \in {} |-> 0]
    /\ hotel_cache = <<>>
    /\ hotel_pointer = Unbound
    /\ served = <<>>
    /\ nbatches = 0
    /\ hotel_writer = 0
    /\ offers_seen = [s \in Sessions |-> {}]
    /\ pc = [s \in Sessions |-> "idle"]
    /\ frame = [s \in Sessions |-> NoFrame]
    /\ result = [s \in Sessions |-> NoResult]
    /\ net = [s \in Sessions |-> <<>>]
    /\ ncalls = 0
    /\ conn = [s \in Sessions |-> NoConn]
    /\ active_connections = {}

\* ----------------------------------------------------- handler bookkeeping
\* The frame of a handler that has returned: its arguments and locals are gone.
Returned(f) == [NoFrame EXCEPT !.op = f.op]

\* A caller invokes a handler in session s, which runs nothing else.
Invoke(s) ==
    /\ pc[s] = "idle"
    /\ ncalls' = ncalls + 1

\* The handler of session s, with frame f, returns r.
Finish(s, f, r) ==
    /\ pc' = [pc EXCEPT ![s] = "done"]
    /\ frame' = [frame EXCEPT ![s] = Returned(f)]
    /\ result' = [result EXCEPT ![s] = r]
    /\ UNCHANGED <<net, chat_vars>>

\* The handler of session s, with frame f, sends a request and suspends at label.
Await(s, f, label, request) ==
    /\ pc' = [pc EXCEPT ![s] = label]
    /\ frame' = [frame EXCEPT ![s] = f]
    /\ net' = [net EXCEPT ![s] = Append(@, request)]
    /\ UNCHANGED <<result, chat_vars>>

\* The caller has taken the handler's result; the session is free again.
Return(s) ==
    /\ pc[s] = "done"
    /\ pc' = [pc EXCEPT ![s] = "idle"]
    /\ frame' = [frame EXCEPT ![s] = NoFrame]
    /\ result' = [result EXCEPT ![s] = NoResult]
    /\ net' = [net EXCEPT ![s] = <<>>]
    /\ UNCHANGED <<cache_vars, offers_seen, ncalls, chat_vars>>

\* ---------------------------------------------------------- search_flights
\* Mutant of CacheFlights: the cache is cleared before the new offers are stored.
CacheFlights_Replace(cache, data) ==
    [k \in { data[i].id : i \in DOMAIN data } |->
        LET last == CHOOSE i \in DOMAIN data :
                        /\ data[i].id = k
                        /\ \A j \in DOMAIN data : data[j].id = k => j <= i
        IN data[last]]

\* Mutant of CacheFlights: an id that is cached already keeps its old entity.
CacheFlights_KeepFirst(cache, data) ==
    [k \in DOMAIN cache \cup { data[i].id : i \in DOMAIN data } |->
        IF k \in DOMAIN cache THEN cache[k]
        ELSE data[CHOOSE i \in DOMAIN data : data[i].id = k]]

\* flight_cache[flight["id"]] = flight for each flight of data, in order.
CacheFlights(cache, data) ==
    [k \in DOMAIN cache \cup { data[i].id : i \in DOMAIN data } |->
        IF \E i \in DOMAIN data : data[i].id = k
        THEN LET last == CHOOSE i \in DOMAIN data :
                            /\ data[i].id = k
                            /\ \A j \in DOMAIN data : data[j].id = k => j <= i
             IN data[last]
        ELSE cache[k]]

RecordWriter(writers, data, s) ==
    [k \in DOMAIN writers \cup { data[i].id : i \in DOMAIN data } |->
        IF \E i \in DOMAIN data : data[i].id = k THEN s ELSE writers[k]]

\* The reduced view of one offer that search_flights returns.
FlightProjection(flight) ==
    [booking_id |-> flight.id,
     airline |-> flight.validatingAirlineCodes[1],
     price |-> flight.price.total,
     currency |-> flight.price.currency,
     departure |-> flight.segments[1].departure,
     arrival |-> flight.segments[Len(flight.segments)].arrival,
     stops |-> Len(flight.segments) - 1]

ProjectionRaises(flight) ==
    flight.validatingAirlineCodes = <<>> \/ flight.segments = <<>>

SearchFlightsMissing(a) ==
    a.origin = None \/ a.destination = None \/ a.departure_date = None

SearchFlightsCall(s, a) ==
    /\ Invoke(s)
    /\ UNCHANGED <<cache_vars, offers_seen>>
    /\ LET f == [NoFrame EXCEPT !.op = "search_flights", !.args = a]
       IN IF SearchFlightsMissing(a)
          THEN Finish(s, f, ErrorResult(MsgMissingSearchParams))
          ELSE Await(s, f, "token", AUTH_ENDPOINT)

\* str(n) of a natural number, as its decimal digits.
RECURSIVE str(_)
str(n) == IF n < 10 THEN <<n>> ELSE Append(str(n \div 10), n % 10)

\* Mutant of FlightSearchParams: maxPrice is always sent.
FlightSearchParams_AlwaysMaxPrice(a) ==
    [originLocationCode |-> a.origin, destinationLocationCode |-> a.destination,
     departureDate |-> a.departure_date, adults |-> <<1>>,
     maxPrice |-> str(a.max_price)]

\* params of the flight search request; maxPrice only for a truthy max_price.
\* The values are as the query string carries them, numbers as their digits.
FlightSearchParams(a) ==
    IF a.max_price # 0
    THEN [originLocationCode |-> a.origin, destinationLocationCode |-> a.destination,
          departureDate |-> a.departure_date, adults |-> <<1>>,
          maxPrice |-> str(a.max_price)]
    ELSE [originLocationCode |-> a.origin, destinationLocationCode |-> a.destination,
          departureDate |-> a.departure_date, adults |-> <<1>>]

\* Mutant of SearchFlightsToken: a failed credential request is made once more.
SearchFlightsToken_Retry(s, ok) ==
    /\ pc[s] = "token" /\ frame[s].op = "search_flights"
    /\ UNCHANGED <<cache_vars, offers_seen, ncalls>>
    /\ IF ok
       THEN Await(s, [frame[s] EXCEPT !.params = FlightSearchParams(frame[s].args)],
                  "request", FLIGHT_SEARCH_URL)
       ELSE IF Len(net[s]) < 2
       THEN Await(s, frame[s], "token", AUTH_ENDPOINT)
       ELSE Finish(s, frame[s], ErrorResult(MsgGeneric))

\* get_access_token returned (ok) or raised.
SearchFlightsToken(s, ok) ==
    /\ pc[s] = "token" /\ frame[s].op = "search_flights"
    /\ UNCHANGED <<cache_vars, offers_seen, ncalls>>
    /\ IF ok
       THEN Await(s, [frame[s] EXCEPT !.params = FlightSearchParams(frame[s].args)],
                  "request", FLIGHT_SEARCH_URL)
       ELSE Finish(s, frame[s], ErrorResult(MsgGeneric))

SearchFlightsResponse(s, resp) ==
    /\ pc[s] = "request" /\ frame[s].op = "search_flights"
    /\ UNCHANGED <<hotel_vars, offers_seen, ncalls>>
    /\ IF resp.exc
       THEN /\ Finish(s, frame[s], ErrorResult(MsgGeneric))
            /\ UNCHANGED <<flight_cache, flight_writer>>
       ELSE IF resp.status # HTTP_OK
       THEN /\ Finish(s, frame[s], ErrorResult(MsgSearchFailed))
            /\ UNCHANGED <<flight_cache, flight_writer>>
       ELSE IF resp.data = <<>>
       THEN /\ Finish(s, frame[s], EmptyResult(MsgNoFlights))
            /\ UNCHANGED <<flight_cache, flight_writer>>
       ELSE /\ flight_cache' = CacheFlights(flight_cache, resp.data)
            /\ flight_writer' = RecordWriter(flight_writer, resp.data, s)
            /\ IF \E i \in DOMAIN resp.data : ProjectionRaises(resp.data[i])
               THEN Finish(s, frame[s], ErrorResult(MsgGeneric))
               ELSE Finish(s, frame[s], SuccessResult(
                        [i \in DOMAIN resp.data |-> FlightProjection(resp.data[i])]))

\* ------------------------------------------------------------- book_flight
\* Mutant of CacheGet: an id that is not cached resolves to a made-up offer.
CacheGet_Guess(cache, booking_id) ==
    IF booking_id \in DOMAIN cache THEN cache[booking_id]
    ELSE FlightOffer(booking_id, 1)

\* flight_cache.get(booking_id)
CacheGet(cache, booking_id) ==
    IF booking_id \in DOMAIN cache THEN cache[booking_id] ELSE NoFlight

\* The session that cached the entry under booking_id; 0 when there is none.
WriterOf(writers, booking_id) ==
    IF booking_id \in DOMAIN writers THEN writers[booking_id] ELSE 0

\* The flight-order payload, reduced to the fields copied from the offer and
\* to the traveller's name.
BookingBody(flight, passenger_name) ==
    [id |-> flight.id,
     segments |-> [i \in DOMAIN flight.segments |-> flight.segments[i]],
     price |-> [currency |-> flight.price.currency,
                total |-> flight.price.total,
                base |-> flight.price.base],
     firstName |-> split(passenger_name)[1],
     lastName |-> split(passenger_name)[2]]

BookFlightCall(s, a) ==
    /\ Invoke(s)
    /\ UNCHANGED <<cache_vars, offers_seen>>
    /\ LET flight == CacheGet(flight_cache, a.booking_id)
           f == [NoFrame EXCEPT !.op = "book_flight", !.args = a]
       IN IF a.booking_id = None
          THEN Finish(s, f, ErrorResult(MsgMissingFlightId))
          ELSE IF a.passenger_name = None
          THEN Finish(s, f, ErrorResult(MsgMissingPassenger))
          ELSE IF flight = NoFlight
          THEN Finish(s, f, ErrorResult(MsgCacheMiss))
          ELSE Await(s, [f EXCEPT !.flight = flight,
                                  !.writer = WriterOf(flight_writer, a.booking_id)],
                     "token", AUTH_ENDPOINT)

\* get_access_token returned (ok) or raised; with a token the payload is built
\* and posted.
BookFlightToken(s, ok) ==
    /\ pc[s] = "token" /\ frame[s].op = "book_flight"
    /\ UNCHANGED <<cache_vars, offers_seen, ncalls>>
    /\ IF ~ok
       THEN Finish(s, frame[s], ErrorResult(MsgGeneric))
       ELSE IF Len(split(frame[s].args.passenger_name)) < 2
       THEN Finish(s, frame[s], ErrorResult(MsgGeneric))
       ELSE Await(s, [frame[s] EXCEPT !.body =
                        BookingBody(frame[s].flight, frame[s].args.passenger_name)],
                  "request", BOOKING_URL)

\* Mutant of BookFlightResponse: a booked flight is taken out of the cache.
BookFlightResponse_Evict(s, resp) ==
    /\ pc[s] = "request" /\ frame[s].op = "book_flight"
    /\ UNCHANGED <<hotel_vars, offers_seen, ncalls>>
    /\ IF resp.exc
       THEN Finish(s, frame[s], ErrorResult(MsgGeneric)) /\ UNCHANGED flight_vars
       ELSE IF resp.status # HTTP_CREATED
       THEN Finish(s, frame[s], ErrorResult(MsgBookFailed)) /\ UNCHANGED flight_vars
       ELSE /\ Finish(s, frame[s], StrResult(MsgBookingConfirmed))
            /\ flight_cache' = [k \in DOMAIN flight_cache \ {frame[s].args.booking_id}
                                  |-> flight_cache[k]]
            /\ flight_writer' = [k \in DOMAIN flight_writer \ {frame[s].args.booking_id}
                                   |-> flight_writer[k]]

BookFlightResponse(s, resp) ==
    /\ pc[s] = "request" /\ frame[s].op = "book_flight"
    /\ UNCHANGED <<cache_vars, offers_seen, ncalls>>
    /\ IF resp.exc
       THEN Finish(s, frame[s], ErrorResult(MsgGeneric))
       ELSE IF resp.status # HTTP_CREATED
       THEN Finish(s, frame[s], ErrorResult(MsgBookFailed))
       ELSE Finish(s, frame[s], StrResult(MsgBookingConfirmed))

\* ----------------------------------------------------------- search_hotels
Min(a, b) == IF a < b THEN a ELSE b

\* A dict keyed by hotelId, held as the list of its values in dict order.
\* update() with {hotel["hotelId"]: hotel for hotel in data}: a key keeps the
\* place of its first entry and takes the value of its last.
RECURSIVE DictUpdate(_, _)
DictUpdate(cache, data) ==
    IF data = <<>> THEN cache
    ELSE LET init == DictUpdate(cache, SubSeq(data, 1, Len(data) - 1))
             hotel == data[Len(data)]
         IN IF \E i \in DOMAIN init : init[i].hotelId = hotel.hotelId
            THEN [i \in DOMAIN init |->
                    IF init[i].hotelId = hotel.hotelId THEN hotel ELSE init[i]]
            ELSE Append(init, hotel)

\* Mutant of ReplaceCache: update() without the clear() before it.
ReplaceCache_NoClear(cache, data) == DictUpdate(cache, data)

\* hotel_cache.clear(); hotel_cache.update({...})
ReplaceCache(cache, data) == DictUpdate(<<>>, data)

\* hotel_pointer = 0
ResetPointer(pointer) == 0

\* hotel["hotelId"] raises KeyError for some entry of data.
HotelKeyError(data) == \E i \in DOMAIN data : data[i] = MalformedHotel

\* list(hotel_cache.values())[hotel_pointer : hotel_pointer + BATCH_SIZE]
hotels_to_send(cache, pointer) ==
    SubSeq(cache, pointer + 1, Min(pointer + BATCH_SIZE, Len(cache)))

HotelProjection(hotel) == [hotel_id |-> hotel.hotelId, name |-> hotel.name]

formatted_hotels(hotels) == [i \in DOMAIN hotels |-> HotelProjection(hotels[i])]

\* The pagination test of get_next_hotel_results.
NoMoreHotels(cache, pointer) == pointer >= Len(cache)

\* get_next_hotel_results, which never suspends: its result and its effect on
\* the cursor, from a bound cursor.
NextResult(cache, pointer) ==
    IF NoMoreHotels(cache, pointer)
    THEN EmptyResult(MsgNoMoreHotels)
    ELSE SuccessResult(formatted_hotels(hotels_to_send(cache, pointer)))

\* Mutant of NextPointer: the cursor advances by the batch size, not by the
\* number of hotels returned.
NextPointer_ByBatchSize(cache, pointer) ==
    IF NoMoreHotels(cache, pointer) THEN pointer ELSE pointer + BATCH_SIZE

NextPointer(cache, pointer) ==
    IF NoMoreHotels(cache, pointer)
    THEN pointer
    ELSE pointer + Len(hotels_to_send(cache, pointer))

\* The paging history after a get_next_hotel_results from a bound cursor.
Paged(cache, pointer) ==
    /\ served' = served \o NextResult(cache, pointer).data
    /\ nbatches' = IF NoMoreHotels(cache, pointer) THEN nbatches ELSE nbatches + 1

SearchHotelsCall(s, a) ==
    /\ Invoke(s)
    /\ UNCHANGED <<cache_vars, offers_seen>>
    /\ LET f == [NoFrame EXCEPT !.op = "search_hotels", !.args = a]
       IN IF a.hotel_ids = <<>> /\ a.latitude = 0 /\ a.longitude = 0 /\ a.city_code = None
          THEN Finish(s, f, ErrorResult(MsgNoDiscriminator))
          ELSE Await(s, f, "token", AUTH_ENDPOINT)

\* The endpoint the if/elif chain selects; "" when no branch assigns url.
HotelSearchUrl(a) ==
    IF a.hotel_ids # <<>> THEN HOTEL_BY_HOTEL_ID_URL
    ELSE IF a.latitude # 0 /\ a.longitude # 0 THEN HOTEL_BY_GEOCODE_URL
    ELSE IF a.city_code # None THEN HOTEL_BY_CITY_URL
    ELSE ""

InvalidCityCode(a) ==
    /\ HotelSearchUrl(a) = HOTEL_BY_CITY_URL
    /\ len(a.city_code) # 3

\* get_access_token returned (ok) or raised; with a token the endpoint is
\* chosen and the search request sent.
SearchHotelsToken(s, ok) ==
    /\ pc[s] = "token" /\ frame[s].op = "search_hotels"
    /\ UNCHANGED <<cache_vars, offers_seen, ncalls>>
    /\ LET a == frame[s].args
       IN IF ~ok
          THEN Finish(s, frame[s], ErrorResult(MsgGeneric))
          ELSE IF InvalidCityCode(a)
          THEN Finish(s, frame[s], ErrorResult(MsgInvalidCity))
          ELSE IF HotelSearchUrl(a) = ""
          THEN Finish(s, frame[s], ErrorResult(MsgGeneric))
          ELSE Await(s, [frame[s] EXCEPT !.url = HotelSearchUrl(a)],
                     "request", HotelSearchUrl(a))

SearchHotelsResponse(s, resp) ==
    /\ pc[s] = "request" /\ frame[s].op = "search_hotels"
    /\ UNCHANGED <<flight_vars, offers_seen, ncalls>>
    /\ IF resp.exc
       THEN Finish(s, frame[s], ErrorResult(MsgGeneric)) /\ UNCHANGED hotel_vars
       ELSE IF resp.status # HTTP_OK
       THEN Finish(s, frame[s], ErrorResult(MsgHotelSearchFailed)) /\ UNCHANGED hotel_vars
       ELSE IF resp.data = <<>>
       THEN Finish(s, frame[s], EmptyResult(MsgNoHotels)) /\ UNCHANGED hotel_vars
       ELSE IF HotelKeyError(resp.data)
       THEN /\ hotel_cache' = <<>>
            /\ served' = <<>>
            /\ nbatches' = 0
            /\ hotel_writer' = 0
            /\ UNCHANGED hotel_pointer
            /\ Finish(s, frame[s], ErrorResult(MsgGeneric))
       ELSE LET cache == ReplaceCache(hotel_cache, resp.data)
                pointer == ResetPointer(hotel_pointer)
            IN /\ hotel_cache' = cache
               /\ hotel_pointer' = NextPointer(cache, pointer)
               /\ served' = NextResult(cache, pointer).data
               /\ nbatches' = IF NoMoreHotels(cache, pointer) THEN 0 ELSE 1
               /\ hotel_writer' = s
               /\ Finish(s, frame[s], NextResult(cache, pointer))

\* ------------------------------------------------- get_next_hotel_results
GetNextHotelResults(s) ==
    /\ Invoke(s)
    /\ UNCHANGED <<flight_vars, hotel_cache, hotel_writer, offers_seen>>
    /\ LET f == [NoFrame EXCEPT !.op = "get_next_hotel_results"]
       IN IF hotel_pointer = Unbound
          THEN /\ Finish(s, f, Raised("NameError"))
               /\ UNCHANGED <<hotel_pointer, served, nbatches>>
          ELSE /\ Finish(s, f, NextResult(hotel_cache, hotel_pointer))
               /\ hotel_pointer' = NextPointer(hotel_cache, hotel_pointer)
               /\ Paged(hotel_cache, hotel_pointer)

\* ----------------------------------------------------- search_hotel_offers
\* The message of the validation error of the arguments, "" when they pass.
OfferArgsError(a) ==
    IF a.hotel_ids = <<>> THEN MsgMissingHotelIds
    ELSE IF a.check_in_date = <<>> \/ a.check_out_date = <<>> THEN MsgMissingDates
    ELSE IF StrLess(a.check_in_date, Today) THEN MsgCheckInPast
    ELSE IF ~StrLess(a.check_in_date, a.check_out_date) THEN MsgCheckOutOrder
    ELSE ""

SearchHotelOffersCall(s, a) ==
    /\ Invoke(s)
    /\ UNCHANGED <<cache_vars, offers_seen>>
    /\ LET f == [NoFrame EXCEPT !.op = "search_hotel_offers", !.args = a]
       IN IF OfferArgsError(a) # ""
          THEN Finish(s, f, ErrorResult(OfferArgsError(a)))
          ELSE Await(s, f, "token", AUTH_ENDPOINT)

SearchHotelOffersToken(s, ok) ==
    /\ pc[s] = "token" /\ frame[s].op = "search_hotel_offers"
    /\ UNCHANGED <<cache_vars, offers_seen, ncalls>>
    /\ IF ok
       THEN Await(s, frame[s], "request", HOTEL_OFFERS_URL)
       ELSE Finish(s, frame[s], ErrorResult(MsgGeneric))

\* The entries of data that format without raising, as returned offers.
\* Mutant of FormattedOffers: an entry that cannot be formatted is kept.
FormattedOffers_KeepAll(data) ==
    [i \in DOMAIN data |-> [offer_id |-> data[i].offer_id, hotel_id |-> data[i].hotelId]]

FormattedOffers(data) ==
    LET kept == SelectSeq(data, LAMBDA o : o.complete)
    IN [i \in DOMAIN kept |-> [offer_id |-> kept[i].offer_id, hotel_id |-> kept[i].hotelId]]

SearchHotelOffersResponse(s, resp) ==
    /\ pc[s] = "request" /\ frame[s].op = "search_hotel_offers"
    /\ UNCHANGED <<cache_vars, ncalls>>
    /\ LET offers == FormattedOffers(resp.data)
       IN IF resp.exc
          THEN Finish(s, frame[s], ErrorResult(MsgGeneric)) /\ UNCHANGED offers_seen
          ELSE IF resp.status # HTTP_OK
          THEN Finish(s, frame[s], ErrorResult(MsgOffersFailed)) /\ UNCHANGED offers_seen
          ELSE IF resp.data = <<>> \/ offers = <<>>
          THEN Finish(s, frame[s], EmptyResult(MsgNoOffers)) /\ UNCHANGED offers_seen
          ELSE /\ Finish(s, frame[s], SuccessResult(offers))
               /\ offers_seen' = [offers_seen EXCEPT ![s] =
                                    @ \cup { offers[i].offer_id : i \in DOMAIN offers }]

\* -------------------------------------------------------------- book_hotel
\* The hotel-order payload, reduced to the offer id and the first guest.
HotelBookingBody(offer_id, guests) ==
    [hotelOfferId |-> offer_id,
     guestReferences |-> [i \in DOMAIN guests |-> i],
     email |-> guests[1].email,
     holderName |-> <<guests[1].firstName, guests[1].lastName>>]

\* guests[0]["email"] raises KeyError.
GuestKeyError(guests) == guests[1].email = None

BookHotelCall(s, a) ==
    /\ Invoke(s)
    /\ UNCHANGED <<cache_vars, offers_seen>>
    /\ LET f == [NoFrame EXCEPT !.op = "book_hotel", !.args = a]
       IN IF a.offer_id = None
          THEN Finish(s, f, ErrorResult(MsgMissingOfferId))
          ELSE IF a.guests = <<>>
          THEN Finish(s, f, ErrorResult(MsgMissingGuests))
          ELSE Await(s, f, "token", AUTH_ENDPOINT)

BookHotelToken(s, ok) ==
    /\ pc[s] = "token" /\ frame[s].op = "book_hotel"
    /\ UNCHANGED <<cache_vars, offers_seen, ncalls>>
    /\ LET a == frame[s].args
       IN IF ~ok
          THEN Finish(s, frame[s], ErrorResult(MsgGeneric))
          ELSE IF GuestKeyError(a.guests)
          THEN Finish(s, frame[s], ErrorResult(MsgGeneric))
          ELSE Await(s, [frame[s] EXCEPT !.body = HotelBookingBody(a.offer_id, a.guests)],
                     "request", HOTEL_BOOKING_URL)

BookHotelResponse(s, resp) ==
    /\ pc[s] = "request" /\ frame[s].op = "book_hotel"
    /\ UNCHANGED <<cache_vars, offers_seen, ncalls>>
    /\ IF resp.exc
       THEN Finish(s, frame[s], ErrorResult(MsgGeneric))
       ELSE IF resp.status # HTTP_CREATED
       THEN Finish(s, frame[s], ErrorResult(MsgHotelBookFailed))
       ELSE Finish(s, frame[s], SuccessResult(<<"order">>))

\* ------------------------------------------------------ websocket_endpoint
\* Text frames received so far over all connections.
RECURSIVE ReceivedUpTo(_)
ReceivedUpTo(n) == IF n = 0 THEN 0 ELSE conn[n].received + ReceivedUpTo(n - 1)

\* manager.connect: the socket is accepted and registered.
Connect(s) ==
    /\ conn[s].at = "closed"
    /\ conn' = [conn EXCEPT ![s] = [NoConn EXCEPT !.at = "receive",
                                                  !.received = conn[s].received]]
    /\ active_connections' = active_connections \cup {s}
    /\ UNCHANGED <<cache_vars, offers_seen, handler_vars, ncalls>>

\* receive_text raises WebSocketDisconnect: manager.disconnect, the coroutine ends.
ClientDisconnect(s) ==
    /\ conn[s].at = "receive"
    /\ conn' = [conn EXCEPT ![s] = [NoConn EXCEPT !.received = conn[s].received]]
    /\ active_connections' = active_connections \ {s}
    /\ UNCHANGED <<cache_vars, offers_seen, handler_vars, ncalls>>

\* The system prompt goes first unless a system message is present.
WithSystemPrompt(messages) ==
    IF \E k \in DOMAIN messages : messages[k].role = "system"
    THEN messages
    ELSE <<SystemMessage>> \o messages

\* A text frame arrives: it is parsed, the request is built, the
\* acknowledgement is sent.  Text that is not JSON raises into the generic
\* handler, which only logs: the coroutine ends, the socket stays registered.
Receive(s, data) ==
    /\ conn[s].at = "receive"
    /\ ReceivedUpTo(NumSessions) < MaxMessages
    /\ conn' = [conn EXCEPT ![s] =
            IF ~data.json_ok
            THEN [NoConn EXCEPT !.at = "ended", !.received = conn[s].received + 1]
            ELSE [NoConn EXCEPT !.at = "model",
                                !.received = conn[s].received + 1,
                                !.function_name = conn[s].function_name,
                                !.messages = WithSystemPrompt(data.messages),
                                !.sent = <<Frame("message_received", AckText)>>]]
    /\ UNCHANGED <<cache_vars, offers_seen, handler_vars, ncalls, active_connections>>

\* generate_chat_response: role and content of the first choice; the tool
\* calls of the reply are not copied.  An exception of the API gives the
\* error dict.
generate_chat_response(reply) ==
    IF reply.exc
    THEN ResponseDict(None, None, <<>>, "An error occurred with OpenAI API. Please try again later.")
    ELSE ResponseDict("assistant", reply.content, <<>>, None)

\* The response websocket_endpoint reads "tool_calls" from: the dict above
\* with the tool calls of the reply handed over.
ResponseWithToolCalls(reply) ==
    [generate_chat_response(reply) EXCEPT !.tool_calls = reply.tool_calls]

\* The first response to a message is in: with tool calls the follow-up
\* history is started, without them the response is the answer.
AfterResponse(s, reply, response) ==
    /\ conn[s].at = "model"
    /\ conn' = [conn EXCEPT ![s] =
            LET c == [conn[s] EXCEPT !.request = conn[s].messages,
                                     !.replies = <<reply>>,
                                     !.response = response]
            IN  IF response.tool_calls # <<>>
                THEN [c EXCEPT !.at = "tools",
                               !.follow_up_messages =
                                   Append(c.messages,
                                          ChatMessage("assistant", response.content,
                                                      response.tool_calls, None, NoPayload)),
                               !.i = 1]
                ELSE [c EXCEPT !.at = "respond"]]
    /\ UNCHANGED <<cache_vars, offers_seen, handler_vars, ncalls, active_connections>>

\* The model is invoked through generate_chat_response.
InvokeModel(s, reply) == AfterResponse(s, reply, generate_chat_response(reply))

\* The model is invoked and the response carries the tool calls of the reply.
InvokeModelWithTools(s, reply) == AfterResponse(s, reply, ResponseWithToolCalls(reply))

\* The tool call the loop is at.
InLoop(s) ==
    /\ conn[s].at = "tools"
    /\ conn[s].i <= Len(conn[s].response.tool_calls)
    /\ pc[s] = "idle"
tool_call(s) == conn[s].response.tool_calls[conn[s].i]
function_name(s) == tool_call(s).function.name
function_args(s) == tool_call(s).function.arguments

\* FUNCTION_MAP[function_name](**function_args): the handler runs up to its
\* first suspension or to its return.
DispatchTool(s) ==
    /\ InLoop(s)
    /\ function_args(s).json_ok
    /\ function_name(s) \in FUNCTION_MAP
    /\ function_args(s).sig_ok
    /\ \/ function_name(s) = "search_flights"
          /\ SearchFlightsCall(s, function_args(s).kwargs)
       \/ function_name(s) = "book_flight"
          /\ BookFlightCall(s, function_args(s).kwargs)
       \/ function_name(s) = "search_hotels"
          /\ SearchHotelsCall(s, function_args(s).kwargs)
       \/ function_name(s) = "search_hotel_offers"
          /\ SearchHotelOffersCall(s, function_args(s).kwargs)
       \/ function_name(s) = "book_hotel"
          /\ BookHotelCall(s, function_args(s).kwargs)

\* json.dumps({"error": str(e)})
ExceptionPayload(e) == [type |-> "dict", status |-> "none", message |-> e]

\* json.dumps(function_response), the items of its data left out.
dumps(function_response) ==
    [type |-> function_response.type, status |-> function_response.status,
     message |-> function_response.message]

ToolMessage(id, payload) == ChatMessage("tool", "json", <<>>, id, payload)

\* Mutant of NextCall: a failed call ends the round.
NextCall_BreakOnError(i, n, failed) == IF failed THEN n + 1 ELSE i + 1

\* The for statement goes on to the next of the n tool calls, whether call i
\* failed or not.
NextCall(i, n, failed) == i + 1

\* The result of a handler that reports a failure or raised.
Failed(function_response) ==
    function_response.status = "error" \/ function_response.type = "raise"

\* The handler has returned: its result, or the error of what it raised,
\* is appended as the tool message of the call.  (function_name was bound
\* before the call; no step in between reads it.)
ToolReturn(s) ==
    /\ conn[s].at = "tools"
    /\ pc[s] = "done"
    /\ conn' = [conn EXCEPT ![s].follow_up_messages =
                    Append(@, ToolMessage(tool_call(s).id,
                                          IF result[s].type = "raise"
                                          THEN ExceptionPayload(result[s].message)
                                          ELSE dumps(result[s]))),
                            ![s].handled = Append(@, tool_call(s).id),
                            ![s].function_name = function_name(s),
                            ![s].i = NextCall(@, Len(conn[s].response.tool_calls),
                                              Failed(result[s]))]
    /\ pc' = [pc EXCEPT ![s] = "idle"]
    /\ frame' = [frame EXCEPT ![s] = NoFrame]
    /\ result' = [result EXCEPT ![s] = NoResult]
    /\ net' = [net EXCEPT ![s] = <<>>]
    /\ UNCHANGED <<cache_vars, offers_seen, ncalls, active_connections>>

\* json.loads raises on the arguments, or the call of a registered handler
\* raises TypeError on them: the error is appended as the tool message.
ToolRaises(s) ==
    /\ InLoop(s)
    /\ function_name(s) # None
    /\ \/ ~function_args(s).json_ok
       \/ function_name(s) \in FUNCTION_MAP /\ ~function_args(s).sig_ok
    /\ conn' = [conn EXCEPT ![s].follow_up_messages =
                    Append(@, ToolMessage(tool_call(s).id,
                                          ExceptionPayload(IF function_args(s).json_ok
                                                           THEN "TypeError"
                                                           ELSE "JSONDecodeError"))),
                            ![s].function_name = function_name(s),
                            ![s].i = NextCall(@, Len(conn[s].response.tool_calls), TRUE)]
    /\ UNCHANGED <<cache_vars, offers_seen, handler_vars, ncalls, active_connections>>

\* The name is not in FUNCTION_MAP: the loop goes on to the next call.
SkipTool(s) ==
    /\ InLoop(s)
    /\ function_args(s).json_ok
    /\ function_name(s) # None
    /\ function_name(s) \notin FUNCTION_MAP
    /\ conn' = [conn EXCEPT ![s].function_name = function_name(s),
                            ![s].i = NextCall(@, Len(conn[s].response.tool_calls), FALSE)]
    /\ UNCHANGED <<cache_vars, offers_seen, handler_vars, ncalls, active_connections>>

\* tool_call["function"]["name"] raises KeyError.  The except branch logs
\* function_name: bound by an earlier call of this coroutine, the error is
\* appended as the tool message; not bound, the log statement raises
\* UnboundLocalError out of the loop into the generic handler, which only
\* logs: the coroutine ends, the socket stays registered.
ToolMalformed(s) ==
    /\ InLoop(s)
    /\ function_name(s) = None
    /\ conn' = [conn EXCEPT ![s] =
            IF conn[s].function_name = None
            THEN [NoConn EXCEPT !.at = "ended", !.received = conn[s].received]
            ELSE [conn[s] EXCEPT
                    !.follow_up_messages =
                        Append(@, ToolMessage(tool_call(s).id, ExceptionPayload("KeyError"))),
                    !.i = NextCall(@, Len(conn[s].response.tool_calls), TRUE)]]
    /\ UNCHANGED <<cache_vars, offers_seen, handler_vars, ncalls, active_connections>>

\* Where websocket_endpoint goes with the response of the follow-up request.
AfterFollowUp_Loop(response) ==
    IF response.tool_calls # <<>> THEN "tools" ELSE "respond"

AfterFollowUp(response) == "respond"

\* All tool calls are done: the model is invoked with the follow-up history.
FollowUp(s, reply) ==
    /\ conn[s].at = "tools"
    /\ conn[s].i > Len(conn[s].response.tool_calls)
    /\ LET response == ResponseWithToolCalls(reply)
       IN  conn' = [conn EXCEPT ![s].request = WithSystemPrompt(conn[s].follow_up_messages),
                                ![s].follow_up_messages = WithSystemPrompt(@),
                                ![s].replies = Append(@, reply),
                                ![s].response = response,
                                ![s].at = AfterFollowUp(response)]
    /\ UNCHANGED <<cache_vars, offers_seen, handler_vars, ncalls, active_connections>>

\* Mutant of content: a response without content is answered with its error text.
content_ErrorText(response) ==
    IF response.content # None THEN response.content
    ELSE IF response.error # None THEN response.error
    ELSE FallbackText

\* response.get("content") or the fallback text
content(response) ==
    IF response.content # None THEN response.content ELSE FallbackText

\* The chat_response frame is sent; the coroutine is back at receive_text,
\* the locals of the iteration are gone, but for function_name, which the
\* next iteration may read before it assigns it.
Respond(s) ==
    /\ conn[s].at = "respond"
    /\ conn' = [conn EXCEPT ![s] =
            [NoConn EXCEPT !.at = "receive",
                           !.received = conn[s].received,
                           !.function_name = conn[s].function_name,
                           !.sent = Append(conn[s].sent,
                                           Frame("chat_response", content(conn[s].response)))]]
    /\ UNCHANGED <<cache_vars, offers_seen, handler_vars, ncalls, active_connections>>

\* ------------------------------------------------------------------ specs
\* The handlers of custom_tools.py, called by interleaving sessions.
FlightStep(s) ==
    \/ ncalls < MaxCalls /\ \E a \in FlightSearchArgs : SearchFlightsCall(s, a)
    \/ \E ok \in BOOLEAN : SearchFlightsToken(s, ok)
    \/ \E resp \in FlightSearchResponses : SearchFlightsResponse(s, resp)
    \/ ncalls < MaxCalls /\ \E a \in BookFlightArgs : BookFlightCall(s, a)
    \/ \E ok \in BOOLEAN : BookFlightToken(s, ok)
    \/ \E resp \in BookingResponses : BookFlightResponse(s, resp)
    \/ Return(s)

Next == \E s \in Sessions : FlightStep(s)

Spec == Init /\ [][Next]_vars

\* search_hotels and get_next_hotel_results of hotel_requests.py, called by
\* interleaving sessions.
HotelStep(s) ==
    \/ ncalls < MaxCalls /\ \E a \in HotelSearchArgs : SearchHotelsCall(s, a)
    \/ \E ok \in BOOLEAN : SearchHotelsToken(s, ok)
    \/ \E resp \in HotelSearchResponses : SearchHotelsResponse(s, resp)
    \/ ncalls < MaxCalls /\ GetNextHotelResults(s)
    \/ Return(s)

NextHotels == \E s \in Sessions : HotelStep(s)

SpecHotels == Init /\ [][NextHotels]_vars

\* search_hotel_offers and book_hotel of hotel_requests.py, called by
\* interleaving sessions.
OfferStep(s) ==
    \/ ncalls < MaxCalls /\ \E a \in HotelOfferArgs : SearchHotelOffersCall(s, a)
    \/ \E ok \in BOOLEAN : SearchHotelOffersToken(s, ok)
    \/ \E resp \in OfferResponses : SearchHotelOffersResponse(s, resp)
    \/ ncalls < MaxCalls /\ \E a \in BookHotelArgs : BookHotelCall(s, a)
    \/ \E ok \in BOOLEAN : BookHotelToken(s, ok)
    \/ \E resp \in BookingResponses : BookHotelResponse(s, resp)
    \/ Return(s)

NextOffers == \E s \in Sessions : OfferStep(s)

SpecOffers == Init /\ [][NextOffers]_vars

\* websocket_endpoint with generate_chat_response of openai_service.py.
ChatStep(s) ==
    \/ Connect(s)
    \/ ClientDisconnect(s)
    \/ \E data \in Inbound : Receive(s, data)
    \/ \E reply \in ModelReplies : InvokeModel(s, reply)
    \/ Respond(s)

NextChat == \E s \in Sessions : ChatStep(s)

SpecChat == Init /\ [][NextChat]_vars

\* websocket_endpoint and the handlers of FUNCTION_MAP, with a response that
\* carries the tool calls of the model's reply.
LoopStep(s) ==
    \/ Connect(s)
    \/ ClientDisconnect(s)
    \/ \E data \in InboundOfUsualClient : Receive(s, data)
    \/ \E reply \in ModelReplies : InvokeModelWithTools(s, reply)
    \/ DispatchTool(s)
    \/ \E ok \in BOOLEAN : SearchFlightsToken(s, ok)
    \/ \E resp \in FlightSearchResponses : SearchFlightsResponse(s, resp)
    \/ \E ok \in BOOLEAN : BookFlightToken(s, ok)
    \/ \E resp \in BookingResponses : BookFlightResponse(s, resp)
    \/ \E ok \in BOOLEAN : SearchHotelsToken(s, ok)
    \/ \E resp \in HotelSearchResponses : SearchHotelsResponse(s, resp)
    \/ \E ok \in BOOLEAN : SearchHotelOffersToken(s, ok)
    \/ \E resp \in OfferResponses : SearchHotelOffersResponse(s, resp)
    \/ \E ok \in BOOLEAN : BookHotelToken(s, ok)
    \/ \E resp \in BookingResponses : BookHotelResponse(s, resp)
    \/ ToolReturn(s)
    \/ ToolRaises(s)
    \/ SkipTool(s)
    \/ ToolMalformed(s)
    \/ \E reply \in ModelReplies : FollowUp(s, reply)
    \/ Respond(s)

NextLoop == \E s \in Sessions : LoopStep(s)

SpecLoop == Init /\ [][NextLoop]_vars

\* The six handlers of custom_tools.py and hotel_requests.py, called directly
\* by interleaving sessions.
HandlerStep(s) ==
    \/ ncalls < MaxCalls /\ \E a \in FlightSearchArgs : SearchFlightsCall(s, a)
    \/ \E ok \in BOOLEAN : SearchFlightsToken(s, ok)
    \/ \E resp \in FlightSearchResponses : SearchFlightsResponse(s, resp)
    \/ ncalls < MaxCalls /\ \E a \in BookFlightArgs : BookFlightCall(s, a)
    \/ \E ok \in BOOLEAN : BookFlightToken(s, ok)
    \/ \E resp \in BookingResponses : BookFlightResponse(s, resp)
    \/ ncalls < MaxCalls /\ \E a \in HotelSearchArgs : SearchHotelsCall(s, a)
    \/ \E ok \in BOOLEAN : SearchHotelsToken(s, ok)
    \/ \E resp \in HotelSearchResponses : SearchHotelsResponse(s, resp)
    \/ ncalls < MaxCalls /\ GetNextHotelResults(s)
    \/ ncalls < MaxCalls /\ \E a \in HotelOfferArgs : SearchHotelOffersCall(s, a)
    \/ \E ok \in BOOLEAN : SearchHotelOffersToken(s, ok)
    \/ \E resp \in OfferResponses : SearchHotelOffersResponse(s, resp)
    \/ ncalls < MaxCalls /\ \E a \in BookHotelArgs : BookHotelCall(s, a)
    \/ \E ok \in BOOLEAN : BookHotelToken(s, ok)
    \/ \E resp \in BookingResponses : BookHotelResponse(s, resp)
    \/ Return(s)

NextHandlers == \E s \in Sessions : HandlerStep(s)

SpecHandlers == Init /\ [][NextHandlers]_vars

\* Mutant of TimedOut: the requests are sent with no timeout at all.
TimedOut_Never(s) == pc[s] = "never" /\ UNCHANGED vars

\* The request a handler of session s awaits gets no answer.  The handlers
\* create their aiohttp.ClientSession without a timeout argument, so the
\* session's default total timeout (five minutes) ends the wait: the request
\* raises asyncio.TimeoutError, which takes the path of any other exception of
\* the request.
TimedOut(s) ==
    \/ SearchFlightsToken(s, FALSE)
    \/ SearchFlightsResponse(s, NetworkException)
    \/ BookFlightToken(s, FALSE)
    \/ BookFlightResponse(s, NetworkException)
    \/ SearchHotelsToken(s, FALSE)
    \/ SearchHotelsResponse(s, NetworkException)
    \/ SearchHotelOffersToken(s, FALSE)
    \/ SearchHotelOffersResponse(s, NetworkException)
    \/ BookHotelToken(s, FALSE)
    \/ BookHotelResponse(s, NetworkException)

\* The steps websocket_endpoint takes by itself once a frame is in: the event
\* loop runs a coroutine that is ready, and the model API answers or raises.
LoopProgress(s) ==
    \/ \E reply \in ModelReplies : InvokeModelWithTools(s, reply)
    \/ DispatchTool(s)
    \/ ToolReturn(s)
    \/ ToolRaises(s)
    \/ SkipTool(s)
    \/ ToolMalformed(s)
    \/ \E reply \in ModelReplies : FollowUp(s, reply)
    \/ Respond(s)

\* websocket_endpoint with its tool loop on one connection, where a coroutine
\* that can run does run and a request without an answer times out; whether
\* and when the provider answers, and what the client does, is left open.
NextOneLoop == LoopStep(1)

SpecLoopFair ==
    /\ Init /\ [][NextOneLoop]_vars
    /\ WF_vars(TimedOut(1)) /\ WF_vars(LoopProgress(1))

\* ================================================================== claims
Running(s, op) == frame[s].op = op /\ pc[s] \in {"token", "request"}

\* ceil(n / b)
Ceil(n, b) == (n + b - 1) \div b

\* C1: a booking in one session resolves its identifier only against an
\* entity that a search of the same session cached: the session that wrote
\* the entry book_flight took from the cache is the booking session itself.
C1_BookingSeesOwnSessionOnly ==
    \A s \in Sessions : Running(s, "book_flight") => frame[s].writer = s

C3_HotelBookingOnlyOfSeenOffer ==
    \A s \in Sessions :
        (frame[s].op = "book_hotel" /\ pc[s] = "request")
            => frame[s].args.offer_id \in offers_seen[s]

\* C4: every booking id of a successful search_flights result is a key of the
\* cache and stays one whatever happens next; book_flight with a cached id and
\* a passenger name takes the entity cached under that id; and the payload it
\* posts has that entity's id, itinerary segments and price fields.
C4_ReturnedIdsResolve ==
    /\ [](\A s \in Sessions :
            (pc[s] = "done" /\ frame[s].op = "search_flights"
                /\ result[s].status = "success")
                => /\ result[s].data # <<>>
                   /\ \A i \in DOMAIN result[s].data :
                        result[s].data[i].booking_id \in DOMAIN flight_cache)
    /\ [][DOMAIN flight_cache \subseteq DOMAIN flight_cache']_vars
    /\ [][\A s \in Sessions : \A a \in BookFlightArgs :
            (BookFlightCall(s, a) /\ a.booking_id \in DOMAIN flight_cache
                /\ a.passenger_name # None)
                => /\ pc'[s] = "token"
                   /\ frame'[s].flight = flight_cache[a.booking_id]]_vars
    /\ [](\A s \in Sessions :
            (frame[s].op = "book_flight" /\ pc[s] = "request")
                => /\ frame[s].body.id = frame[s].args.booking_id
                   /\ frame[s].flight.id = frame[s].args.booking_id
                   /\ frame[s].body.segments = frame[s].flight.segments
                   /\ frame[s].body.price.total = frame[s].flight.price.total
                   /\ frame[s].body.price.base = frame[s].flight.price.base
                   /\ frame[s].body.price.currency = frame[s].flight.price.currency
                   /\ net[s] = <<AUTH_ENDPOINT, BOOKING_URL>>)

\* A session posts the booking of a connection found by an earlier search,
\* after at least one other call in between.
C4_Witness ==
    \E s \in Sessions :
        /\ frame[s].op = "book_flight" /\ pc[s] = "request"
        /\ Len(frame[s].body.segments) = 2
        /\ frame[s].writer = s
        /\ ncalls >= 3

\* C5: while a result set of N hotels is cached, the batches returned by the
\* get_next_hotel_results calls since the search (the one search_hotels makes
\* itself included) are non-empty, at most BATCH_SIZE long, and concatenate to
\* the first hotel_pointer entries of the cached order, each hotel once; so
\* they are ceil(N / BATCH_SIZE) batches making up the whole result set when
\* the cursor reaches N, and every call from then on returns status empty.
C5_PagingCoversResultOnce ==
    /\ [](hotel_cache # <<>> =>
            /\ hotel_pointer \in 0..Len(hotel_cache)
            /\ served = [i \in 1..hotel_pointer |-> HotelProjection(hotel_cache[i])]
            /\ nbatches = Ceil(hotel_pointer, BATCH_SIZE)
            /\ \A i, j \in DOMAIN served :
                    served[i].hotel_id = served[j].hotel_id => i = j)
    /\ [][\A s \in Sessions :
            (GetNextHotelResults(s) /\ hotel_cache # <<>>)
                => IF hotel_pointer = Len(hotel_cache)
                   THEN /\ result'[s] = EmptyResult(MsgNoMoreHotels)
                        /\ hotel_pointer' = hotel_pointer
                   ELSE /\ result'[s].status = "success"
                        /\ Len(result'[s].data) \in 1..BATCH_SIZE
                        /\ hotel_pointer' = hotel_pointer + Len(result'[s].data)
                        /\ \A i \in DOMAIN result'[s].data :
                              result'[s].data[i] =
                                  HotelProjection(hotel_cache[hotel_pointer + i])]_vars

\* The largest result set has been paged out in ceil(N / BATCH_SIZE) batches
\* and a further call has returned status empty.
C5_Witness ==
    /\ Len(hotel_cache) = MaxHotels
    /\ hotel_pointer = MaxHotels
    /\ nbatches = Ceil(MaxHotels, BATCH_SIZE)
    /\ Len(served) = MaxHotels
    /\ \E s \in Sessions :
        /\ pc[s] = "done" /\ frame[s].op = "get_next_hotel_results"
        /\ result[s] = EmptyResult(MsgNoMoreHotels)

LastToolCalls(s) == conn[s].replies[Len(conn[s].replies)].tool_calls

\* C7: for a reply with n tool calls, the history of the next invocation
\* holds, right after the assistant's tool-call message, exactly n tool
\* messages whose tool_call_id are the ids of the calls in the order of the
\* reply, whatever the outcome of each call.
C7_EveryCallAnsweredInOrder ==
    \A s \in Sessions :
        Len(conn[s].replies) = 2 =>
            LET calls == conn[s].replies[1].tool_calls
                k == Len(conn[s].messages) + 1
                request == conn[s].request
            IN  /\ Len(request) = k + Len(calls)
                /\ request[k].role = "assistant"
                /\ request[k].tool_calls = calls
                /\ \A j \in 1..Len(calls) :
                        /\ request[k + j].role = "tool"
                        /\ request[k + j].tool_call_id = calls[j].id

\* C8: the chat_response of a message is produced from a reply without tool
\* calls: a reply that carries tool calls is never the final answer.
C8_AnswerIsATerminalReply ==
    [][\A s \in Sessions : Respond(s) => LastToolCalls(s) = <<>>]_vars

\* Progress of the handling of a message by session s: the stages left.
StagesLeft(s) ==
    CASE conn[s].at = "model" -> 100
      [] conn[s].at = "tools" ->
            10 + 4 * (Len(conn[s].response.tool_calls) + 1 - conn[s].i)
               + (CASE pc[s] = "idle" -> 3
                    [] pc[s] = "token" -> 2
                    [] pc[s] = "request" -> 1
                    [] OTHER -> 0)
      [] conn[s].at = "respond" -> 1
      [] OTHER -> 0

\* C9: a message takes at most two invocations of the model and one round of
\* tools; every step of its handling leaves fewer stages, so the handling
\* ends; a second reply that still asks for tools is answered with the
\* chat_response, not with another round.
C9_RoundsBounded ==
    /\ [](\A s \in Sessions :
            /\ Len(conn[s].replies) <= 2
            /\ conn[s].at = "tools" => Len(conn[s].replies) = 1
            /\ Len(conn[s].replies) = 2 => conn[s].at = "respond")
    /\ [][\A s \in Sessions :
            /\ (conn[s].at \in {"model", "tools", "respond"}
                    /\ <<conn[s], pc[s]>>' # <<conn[s], pc[s]>>)
                => StagesLeft(s)' < StagesLeft(s)
            /\ (conn[s].at = "respond" /\ conn'[s] # conn[s])
                => /\ conn'[s].at = "receive"
                   /\ conn'[s].sent[Len(conn'[s].sent)].type = "chat_response"]_vars

\* The model asked for tools again in its second reply and the answer is due.
C9_Witness ==
    \E s \in Sessions :
        /\ conn[s].at = "respond"
        /\ Len(conn[s].replies) = 2
        /\ LastToolCalls(s) # <<>>
        /\ conn[s].handled # <<>>

\* C10: when the reply of the model to a message carries tool calls, every
\* call with a registered name has been run by its handler before the
\* chat_response of the message is sent.
C10_RegisteredCallsRunBeforeAnswer ==
    [][\A s \in Sessions :
            Respond(s) =>
                \A j \in DOMAIN conn[s].replies[1].tool_calls :
                    LET tc == conn[s].replies[1].tool_calls[j]
                    IN  tc.function.name \in FUNCTION_MAP
                            => \E h \in DOMAIN conn[s].handled :
                                    conn[s].handled[h] = tc.id]_vars

\* The last message of the follow-up history of session s after a step.
LastFollowUp(s) == conn'[s].follow_up_messages[Len(conn'[s].follow_up_messages)]

\* C11: a tool call whose name has no handler in FUNCTION_MAP is not passed
\* over in silence: the step of the loop that handles it appends the tool
\* message answering that call, with an error payload.
C11_UnknownToolIsAnswered ==
    [][\A s \in Sessions :
            (InLoop(s) /\ function_args(s).json_ok
                /\ function_name(s) # None
                /\ function_name(s) \notin FUNCTION_MAP
                /\ conn'[s] # conn[s])
            => /\ Len(conn'[s].follow_up_messages)
                    = Len(conn[s].follow_up_messages) + 1
               /\ LastFollowUp(s).role = "tool"
               /\ LastFollowUp(s).tool_call_id = tool_call(s).id]_vars

\* C12: a handler that raises or reports a provider error does not end the
\* round: the failure becomes the error payload of the tool message of that
\* call, the loop goes on with the next call, and after the last call the
\* model is invoked again with the history that holds these tool messages.
C12_FailureDoesNotAbortRound ==
    [][\A s \in Sessions :
            /\ (conn[s].at = "tools" /\ pc[s] = "done" /\ Failed(result[s])
                    /\ conn'[s] # conn[s])
                => /\ conn'[s].at = "tools"
                   /\ conn'[s].i = conn[s].i + 1
                   /\ LastFollowUp(s).role = "tool"
                   /\ LastFollowUp(s).tool_call_id = tool_call(s).id
                   /\ LastFollowUp(s).payload.message = result[s].message
                   /\ Len(conn'[s].follow_up_messages)
                        = Len(conn[s].follow_up_messages) + 1
            /\ (InLoop(s) /\ function_args(s).json_ok
                    /\ function_name(s) \in FUNCTION_MAP /\ ~function_args(s).sig_ok
                    /\ conn'[s] # conn[s])
                => /\ conn'[s].at = "tools"
                   /\ conn'[s].i = conn[s].i + 1
                   /\ LastFollowUp(s) = ToolMessage(tool_call(s).id,
                                                    ExceptionPayload("TypeError"))
            /\ (conn[s].at = "tools" /\ pc[s] = "idle"
                    /\ conn[s].i = Len(conn[s].response.tool_calls) + 1
                    /\ conn'[s] # conn[s])
                => /\ Len(conn'[s].replies) = 2
                   /\ conn'[s].request = conn[s].follow_up_messages]_vars

\* The follow-up request holds the provider error of the first call and the
\* tool message of the second call.
C12_Witness ==
    \E s \in Sessions :
        /\ Len(conn[s].replies) = 2
        /\ \E j, k \in DOMAIN conn[s].request :
            /\ j < k
            /\ conn[s].request[j].role = "tool"
            /\ conn[s].request[j].tool_call_id = "call_1"
            /\ conn[s].request[j].payload.message = MsgSearchFailed
            /\ conn[s].request[k].role = "tool"
            /\ conn[s].request[k].tool_call_id = "call_2"

\* C13: no fault raised while a message is handled ends the session: the
\* coroutine does not end between the receipt of a message and its
\* chat_response, after which it is back at receive_text.
C13_FaultDoesNotEndSession ==
    [][\A s \in Sessions :
            (conn[s].at \in {"model", "tools", "respond"} /\ conn'[s] # conn[s])
                => /\ conn'[s].at \in {"tools", "respond", "receive"}
                   /\ conn'[s].at = "receive"
                        => conn'[s].sent[Len(conn'[s].sent)].type = "chat_response"]_vars

\* C14: search_hotels with a city code that is not 3 characters long, and no
\* other discriminator, returns the error naming the invalid code before any
\* network call: no token has been requested.
C14_InvalidCityBeforeToken ==
    [][\A s \in Sessions : \A a \in HotelSearchArgs :
            (a.city_code # None /\ len(a.city_code) # 3
                /\ a.hotel_ids = <<>> /\ a.latitude = 0 /\ a.longitude = 0
                /\ SearchHotelsCall(s, a))
            => /\ pc'[s] = "done"
               /\ result'[s] = ErrorResult(MsgInvalidCity)
               /\ net'[s] = <<>>]_vars

\* The calendar meaning of a date string: the number before the dash is the
\* month, the number after it the day.
RECURSIVE Number(_)
Number(digits) ==
    IF digits = <<>> THEN 0
    ELSE 10 * Number(SubSeq(digits, 1, Len(digits) - 1)) + digits[Len(digits)]
DashAt(date) == CHOOSE k \in DOMAIN date : date[k] = Dash
CalendarDay(date) ==
    100 * Number(SubSeq(date, 1, DashAt(date) - 1))
        + Number(SubSeq(date, DashAt(date) + 1, Len(date)))

\* The dates of a search_hotel_offers call must be rejected: the check-in
\* date is before today or the check-out date is not after the check-in date.
BadDates(a) ==
    /\ a.check_in_date # <<>> /\ a.check_out_date # <<>>
    /\ \/ CalendarDay(a.check_in_date) < CalendarDay(Today)
       \/ CalendarDay(a.check_out_date) <= CalendarDay(a.check_in_date)

\* The call returns at once with an error and has made no request.
RejectedWithoutNetwork(s) ==
    /\ pc'[s] = "done"
    /\ result'[s].type = "dict" /\ result'[s].status = "error"
    /\ net'[s] = <<>>

\* C15 as stated: search_hotel_offers with a check-in date earlier than today,
\* or a check-out date not later than the check-in date, returns an error
\* result without any network call.
C15_BadDatesRejected ==
    [][\A s \in Sessions : \A a \in HotelOfferArgs :
            (BadDates(a) /\ SearchHotelOffersCall(s, a))
                => RejectedWithoutNetwork(s)]_vars

\* The arguments give one coordinate and nothing else.
OnlyOneCoordinate(a) ==
    /\ a.hotel_ids = <<>> /\ a.city_code = None
    /\ (a.latitude = 0) # (a.longitude = 0)

HotelSearchEndpoints ==
    {HOTEL_BY_HOTEL_ID_URL, HOTEL_BY_GEOCODE_URL, HOTEL_BY_CITY_URL}

\* C16: for every combination of arguments search_hotels either returns a
\* validation error without any network call, or (given its credential) sends
\* exactly one hotel search request, to the endpoint of one discriminator; a
\* call with only a latitude or only a longitude is rejected without any
\* network call.
C16_RejectedOrOneSearchRequest ==
    /\ [][\A s \in Sessions : \A a \in HotelSearchArgs :
            SearchHotelsCall(s, a)
                => /\ RejectedWithoutNetwork(s) \/ pc'[s] = "token"
                   /\ OnlyOneCoordinate(a) => RejectedWithoutNetwork(s)]_vars
    /\ [][\A s \in Sessions :
            SearchHotelsToken(s, TRUE)
                => /\ pc'[s] = "request"
                   /\ \E url \in HotelSearchEndpoints :
                        net'[s] = <<AUTH_ENDPOINT, url>>]_vars
    /\ [][\A s \in Sessions : \A resp \in HotelSearchResponses :
            SearchHotelsResponse(s, resp) => net'[s] = net[s]]_vars

\* The provider endpoints an operation may send its request to.
ProviderEndpoints(op) ==
    CASE op = "search_flights" -> {FLIGHT_SEARCH_URL}
      [] op = "book_flight" -> {BOOKING_URL}
      [] op = "search_hotels" -> HotelSearchEndpoints
      [] op = "search_hotel_offers" -> {HOTEL_OFFERS_URL}
      [] op = "book_hotel" -> {HOTEL_BOOKING_URL}
      [] OTHER -> {}

\* The credential request of session s failed: the operation returns an error
\* and its request log is as it was.
TokenFailureEndsOperation(s) ==
    /\ pc'[s] = "done"
    /\ result'[s].type = "dict" /\ result'[s].status = "error"
    /\ net'[s] = net[s]

\* C17: the request log of an operation is empty, or the credential request
\* alone, or the credential request followed by one request to an endpoint of
\* the operation; a failed credential request ends the operation with an error
\* result, with no provider request and no second credential request.
C17_TokenBeforeEveryProviderRequest ==
    /\ [](\A s \in Sessions :
            \/ net[s] = <<>>
            \/ net[s] = <<AUTH_ENDPOINT>>
            \/ /\ Len(net[s]) = 2
               /\ net[s][1] = AUTH_ENDPOINT
               /\ net[s][2] \in ProviderEndpoints(frame[s].op))
    /\ [][\A s \in Sessions :
            (\/ SearchFlightsToken(s, FALSE)
             \/ BookFlightToken(s, FALSE)
             \/ SearchHotelsToken(s, FALSE)
             \/ SearchHotelOffersToken(s, FALSE)
             \/ BookHotelToken(s, FALSE))
                => TokenFailureEndsOperation(s)]_vars

\* One operation has sent its provider request after its credential request,
\* and a flight search has ended in an error on its failed credential request.
C17_Witness ==
    \E s, s2 \in Sessions :
        /\ Len(net[s]) = 2 /\ net[s][2] \in ProviderEndpoints(frame[s].op)
        /\ pc[s2] = "done" /\ frame[s2].op = "search_flights"
        /\ net[s2] = <<AUTH_ENDPOINT>>
        /\ result[s2] = ErrorResult(MsgGeneric)

\* An entry of the result list lacks a field the operation reads.
Unreadable(op, data) ==
    CASE op = "search_flights" -> \E i \in DOMAIN data : ProjectionRaises(data[i])
      [] op = "search_hotels" -> \E i \in DOMAIN data : data[i] = MalformedHotel
      [] op = "search_hotel_offers" -> \E i \in DOMAIN data : ~data[i].complete

\* The message of an operation's error for a provider status other than 200;
\* it ends with the errors of the provider's body.
ProviderFailure(op) ==
    CASE op = "search_flights" -> MsgSearchFailed
      [] op = "search_hotels" -> MsgHotelSearchFailed
      [] op = "search_hotel_offers" -> MsgOffersFailed

NothingFound(op) ==
    CASE op = "search_flights" -> MsgNoFlights
      [] op = "search_hotels" -> MsgNoHotels
      [] op = "search_hotel_offers" -> MsgNoOffers

\* The classification of C18 as stated; an entry that cannot be read counts
\* as a parse exception or not, whichever suits the result.
ClassifiedAsStated(op, resp, r) ==
    IF resp.exc THEN r = ErrorResult(MsgGeneric)
    ELSE IF resp.status # HTTP_OK THEN r = ErrorResult(ProviderFailure(op))
    ELSE IF resp.data = <<>> THEN r.type = "dict" /\ r.status = "empty"
    ELSE \/ r.type = "dict" /\ r.status = "success"
         \/ Unreadable(op, resp.data) /\ r = ErrorResult(MsgGeneric)

\* The classification with the entries that cannot be read spelled out: they
\* fail a flight or hotel search, and are left out of the offers.
Classified(op, resp, r) ==
    IF resp.exc THEN r = ErrorResult(MsgGeneric)
    ELSE IF resp.status # HTTP_OK THEN r = ErrorResult(ProviderFailure(op))
    ELSE IF resp.data = <<>> THEN r = EmptyResult(NothingFound(op))
    ELSE IF op # "search_hotel_offers"
    THEN IF Unreadable(op, resp.data)
         THEN r = ErrorResult(MsgGeneric)
         ELSE r.type = "dict" /\ r.status = "success" /\ r.data # <<>>
    ELSE LET readable == { i \in DOMAIN resp.data : resp.data[i].complete }
         IN IF readable = {}
            THEN r = EmptyResult(NothingFound(op))
            ELSE /\ r.type = "dict" /\ r.status = "success"
                 /\ Len(r.data) = Cardinality(readable)
                 /\ { r.data[k].offer_id : k \in DOMAIN r.data }
                        = { resp.data[i].offer_id : i \in readable }

\* C18 as stated: each search operation answers a provider response with
\* success for status 200 and a non-empty list, empty for status 200 and an
\* empty list, the provider-failure error for another status, and the generic
\* error for a network or parse exception.
C18_ResponseClassifiedAsStated ==
    [][\A s \in Sessions :
        /\ \A resp \in FlightSearchResponses :
            SearchFlightsResponse(s, resp)
                => ClassifiedAsStated("search_flights", resp, result'[s])
        /\ \A resp \in HotelSearchResponses :
            SearchHotelsResponse(s, resp)
                => ClassifiedAsStated("search_hotels", resp, result'[s])
        /\ \A resp \in OfferResponses :
            SearchHotelOffersResponse(s, resp)
                => ClassifiedAsStated("search_hotel_offers", resp, result'[s])]_vars

\* C18 amended: the same, where a list entry that cannot be read makes a
\* flight or hotel search return the generic error, and is skipped by
\* search_hotel_offers, which returns empty when no entry is left.
C18_ResponseClassified ==
    [][\A s \in Sessions :
        /\ \A resp \in FlightSearchResponses :
            SearchFlightsResponse(s, resp)
                => Classified("search_flights", resp, result'[s])
        /\ \A resp \in HotelSearchResponses :
            SearchHotelsResponse(s, resp)
                => Classified("search_hotels", resp, result'[s])
        /\ \A resp \in OfferResponses :
            SearchHotelOffersResponse(s, resp)
                => Classified("search_hotel_offers", resp, result'[s])]_vars

\* An offers search has answered success and another one empty, both after
\* their provider request.
C18_Witness ==
    \E s, s2 \in Sessions :
        /\ pc[s] = "done" /\ frame[s].op = "search_hotel_offers"
        /\ net[s] = <<AUTH_ENDPOINT, HOTEL_OFFERS_URL>>
        /\ result[s].status = "success" /\ result[s].data # <<>>
        /\ pc[s2] = "done" /\ frame[s2].op = "search_hotel_offers"
        /\ net[s2] = <<AUTH_ENDPOINT, HOTEL_OFFERS_URL>>
        /\ result[s2] = EmptyResult(MsgNoOffers)

\* The arguments of a tool call leave out a field that the "required" list of
\* the tool's definition names.
OmitsRequired(name, args) ==
    \/ ~args.sig_ok
    \/ CASE name = "search_flights" ->
                \/ args.kwargs.origin = None \/ args.kwargs.destination = None
                \/ args.kwargs.departure_date = None \/ args.kwargs.max_price = 0
         [] name = "book_flight" ->
                args.kwargs.booking_id = None \/ args.kwargs.passenger_name = None
         [] name = "search_hotel_offers" ->
                \/ args.kwargs.hotel_ids = <<>> \/ args.kwargs.check_in_date = <<>>
                \/ args.kwargs.check_out_date = <<>> \/ args.kwargs.adults = 0
         [] name = "book_hotel" ->
                args.kwargs.offer_id = None \/ args.kwargs.guests = <<>>
         [] OTHER -> FALSE

\* C19: the step of the loop on a tool call whose arguments are not JSON, or
\* leave out a required field, appends the tool message of the call with a
\* payload of status "error", and does not invoke the handler: the session
\* runs no handler and has sent no request.
C19_InvalidArgumentsRejected ==
    [][\A s \in Sessions :
            (/\ InLoop(s)
             /\ function_name(s) \in AVAILABLE_FUNCTIONS
             /\ \/ ~function_args(s).json_ok
                \/ OmitsRequired(function_name(s), function_args(s))
             /\ conn'[s].at = "tools"
             /\ conn'[s] # conn[s] \/ pc'[s] # pc[s])
            => /\ pc'[s] = "idle" /\ net'[s] = <<>> /\ ncalls' = ncalls
               /\ Len(conn'[s].follow_up_messages)
                    = Len(conn[s].follow_up_messages) + 1
               /\ LastFollowUp(s).role = "tool"
               /\ LastFollowUp(s).tool_call_id = tool_call(s).id
               /\ LastFollowUp(s).payload.type = "dict"
               /\ LastFollowUp(s).payload.status = "error"]_vars

\* C20: every advertised tool name has a handler in the registry: the step of
\* the loop on a call of an advertised tool, with arguments that fit, invokes
\* the handler of that name.
C20_AdvertisedToolIsDispatched ==
    [][\A s \in Sessions :
            (/\ InLoop(s)
             /\ function_name(s) \in AVAILABLE_FUNCTIONS
             /\ function_args(s).json_ok /\ function_args(s).sig_ok
             /\ conn'[s].at = "tools"
             /\ conn'[s] # conn[s] \/ pc'[s] # pc[s])
            => /\ function_name(s) \in FUNCTION_MAP
               /\ pc'[s] \in {"token", "request", "done"}
               /\ frame'[s].op = function_name(s)]_vars

\* C21: every history passed to the model holds exactly one system message,
\* as its first message.
C21_OneSystemMessageFirst ==
    \A s \in Sessions :
        conn[s].request # <<>> => SystemPositions(conn[s].request) = {1}

\* C22: every frame received is acknowledged by one message_received frame
\* before the model is invoked; nothing is sent while the message is handled,
\* the handling ends with the answer, and the frames sent for the message are
\* then the acknowledgement followed by one chat_response.
C22_AckThenOneResponse ==
    [][\A s \in Sessions :
        /\ \A data \in Inbound :
            Receive(s, data)
                => /\ conn'[s].at = "model"
                   /\ conn'[s].sent = <<Frame("message_received", AckText)>>
        /\ (conn[s].at \in {"model", "tools"} /\ conn'[s] # conn[s])
                => /\ conn'[s].at \in {"model", "tools", "respond"}
                   /\ conn'[s].sent = conn[s].sent
        /\ Respond(s)
                => /\ Len(conn'[s].sent) = 2
                   /\ conn'[s].sent[1] = Frame("message_received", AckText)
                   /\ conn'[s].sent[2].type = "chat_response"]_vars

\* The batch the next paging call returns.
NextBatch == formatted_hotels(hotels_to_send(hotel_cache, hotel_pointer))

\* C23: the hotels a session receives next by paging after its own search are
\* not changed by another session: a hotel search or a paging call of another
\* session leaves the cached result set of the session, and the batch its next
\* paging call returns, as they were.
C23_PagingIsolatedFromOtherSessions ==
    [][\A s, other \in Sessions :
            (/\ other # s
             /\ hotel_writer = s
             /\ \/ GetNextHotelResults(other)
                \/ \E resp \in HotelSearchResponses : SearchHotelsResponse(other, resp))
            => /\ hotel_writer' = s
               /\ hotel_cache' = hotel_cache
               /\ NextBatch' = NextBatch]_vars

\* C24: the model is invoked again only when the round is over: no handler of
\* the session is running, the loop is past the last tool call, and every
\* tool call of the round has its tool message in the history; and a handler
\* runs only while the loop is at its tool call.
C24_FollowUpAfterAllToolMessages ==
    /\ [](\A s \in Sessions : pc[s] # "idle" => conn[s].at = "tools")
    /\ [][\A s \in Sessions : \A reply \in ModelReplies :
            FollowUp(s, reply)
                => /\ pc[s] = "idle" /\ net[s] = <<>>
                   /\ conn[s].i > Len(conn[s].response.tool_calls)
                   /\ \A k \in DOMAIN conn[s].response.tool_calls :
                        \E m \in DOMAIN conn[s].follow_up_messages :
                            /\ conn[s].follow_up_messages[m].role = "tool"
                            /\ conn[s].follow_up_messages[m].tool_call_id
                                = conn[s].response.tool_calls[k].id]_vars

C27_CursorWithinCache ==
    /\ [](hotel_pointer # Unbound => hotel_pointer \in 0..Len(hotel_cache))
    /\ [][hotel_pointer' # hotel_pointer =>
            \E s \in Sessions :
                \/ /\ \E resp \in HotelSearchResponses : SearchHotelsResponse(s, resp)
                   /\ result'[s].status = "success"
                   /\ hotel_pointer' = Len(result'[s].data)
                \/ /\ GetNextHotelResults(s)
                   /\ result'[s].status = "success"
                   /\ Len(result'[s].data) \in 1..BATCH_SIZE
                   /\ hotel_pointer' = hotel_pointer + Len(result'[s].data)]_vars

\* C28: a successful search_flights leaves the flight cache as it was,
\* overridden by the new results: the keys are the old keys and the returned
\* ids, an id that was not returned keeps its entity, and a returned id maps to
\* the entity the search returned for it (the last one of that id).
C28_FlightCacheAccumulates ==
    [][\A s \in Sessions : \A resp \in FlightSearchResponses :
            (SearchFlightsResponse(s, resp) /\ result'[s].status = "success")
                => LET data == resp.data
                       ids == { data[i].id : i \in DOMAIN data }
                   IN /\ DOMAIN flight_cache' = DOMAIN flight_cache \cup ids
                      /\ \A k \in DOMAIN flight_cache \ ids :
                            flight_cache'[k] = flight_cache[k]
                      /\ \A i \in DOMAIN data :
                            (\A j \in DOMAIN data : data[j].id = data[i].id => j <= i)
                                => flight_cache'[data[i].id] = data[i]]_vars

\* A search that returned FL1 alone has just overridden the FL1 of an earlier
\* search, whose FL2 is still cached.
C28_Witness ==
    /\ DOMAIN flight_cache = {"FL1", "FL2"}
    /\ flight_cache["FL1"] = FlightOffer("FL1", 1)
    /\ flight_cache["FL2"] = FlightOffer("FL2", 1)
    /\ \E s \in Sessions :
        /\ pc[s] = "done" /\ frame[s].op = "search_flights"
        /\ result[s].status = "success" /\ Len(result[s].data) = 1

HandlerStepOf(s, op) ==
    /\ frame'[s].op = op
    /\ <<pc[s], frame[s], result[s]>> # <<pc'[s], frame'[s], result'[s]>>

\* C30: only searches change what the caches hold.  The booking, offer and
\* paging handlers leave the entries of the flight cache and of the hotel cache
\* as they are; search_flights leaves the hotel cache and the cursor as they
\* are; search_hotels leaves the flight cache as it is.
C30_OnlySearchesChangeCaches ==
    [][\A s \in Sessions :
        /\ (\E op \in {"book_flight", "book_hotel", "search_hotel_offers",
                       "get_next_hotel_results"} : HandlerStepOf(s, op))
            => /\ flight_cache' = flight_cache
               /\ hotel_cache' = hotel_cache
        /\ HandlerStepOf(s, "search_flights")
            => /\ hotel_cache' = hotel_cache
               /\ hotel_pointer' = hotel_pointer
        /\ HandlerStepOf(s, "search_hotels")
            => flight_cache' = flight_cache]_vars

\* A flight was booked and a batch paged out while both caches hold entries.
C30_Witness ==
    /\ DOMAIN flight_cache # {}
    /\ hotel_cache # <<>>
    /\ \E s, t \in Sessions :
        /\ pc[s] = "done" /\ frame[s].op = "book_flight" /\ result[s].type = "str"
        /\ pc[t] = "done" /\ frame[t].op = "get_next_hotel_results"

\* C31: a search_flights or search_hotels call that hands back status error or
\* empty has left the flight cache, the hotel cache and the cursor as they were
\* before the call, wherever in the handler the failure happened.
C31_FailedSearchLeavesCaches ==
    [][\A s \in Sessions :
        /\ \E op \in {"search_flights", "search_hotels"} : HandlerStepOf(s, op)
        /\ pc'[s] = "done"
        /\ result'[s].status \in {"error", "empty"}
        => /\ flight_cache' = flight_cache
           /\ hotel_cache' = hotel_cache
           /\ hotel_pointer' = hotel_pointer]_vars

\* C32: a paging call never finds the hotel cache halfway through a
\* replacement.  With the cursor set, the cache it reads is a repopulated one
\* (not the cleared one), and the cursor it reads counts the hotels handed out
\* of that result set, not those of the set before it.
C32_HotelCacheReplacedAtomically ==
    [][\A s \in Sessions :
        GetNextHotelResults(s) /\ hotel_pointer # Unbound
            => /\ hotel_cache # <<>>
               /\ hotel_pointer = Len(served)]_vars

\* C33: a paging call made while the cursor has never been assigned returns
\* the empty status; it does not raise.
C33_PagingBeforeSearchIsEmpty ==
    [][\A s \in Sessions :
        GetNextHotelResults(s) /\ hotel_pointer = Unbound
            => /\ result'[s].type = "dict"
               /\ result'[s].status = "empty"]_vars

\* C34: the registry holds exactly the connections whose websocket_endpoint
\* coroutine is running: a connection whose coroutine has ended, by a client
\* disconnect or by any other exception, is not registered.
C34_RegistryIsRunningConnections ==
    active_connections = { s \in Sessions : conn[s].at \notin {"closed", "ended"} }

\* The first model call for the message session s is handling has failed.
ModelCallFailed(s) == conn[s].replies # <<>> /\ conn[s].replies[1].exc

\* C35: when the model call for a user message fails, the message is answered
\* without any tool: the failed call changes no cache and starts no handler,
\* the coroutine goes straight to the answer, the answer is the
\* acknowledgement followed by one chat_response carrying the fallback text,
\* and the coroutine is back at receiving.
C35_ModelFailureAnsweredWithFallback ==
    /\ [](\A s \in Sessions :
            ModelCallFailed(s)
                => /\ conn[s].at = "respond"
                   /\ conn[s].handled = <<>>
                   /\ pc[s] = "idle")
    /\ [][\A s \in Sessions :
            /\ InvokeModelWithTools(s, ApiFailure)
                    => UNCHANGED <<cache_vars, handler_vars, ncalls>>
            /\ ModelCallFailed(s) /\ conn'[s] # conn[s]
                    => /\ Respond(s)
                       /\ conn'[s].sent = <<Frame("message_received", AckText),
                                            Frame("chat_response", FallbackText)>>
                       /\ conn'[s].at = "receive"]_vars

\* A failed model call is about to be answered on a connection that has
\* already had a message answered, with flights cached.
C35_Witness ==
    \E s \in Sessions :
        /\ ModelCallFailed(s)
        /\ conn[s].received = 2
        /\ DOMAIN flight_cache # {}

\* C36: the booking POST of book_flight is sent only for a cached booking id,
\* after a token request, with a passenger name of at least two words; and a
\* call with a one-word passenger name returns an error at once, without any
\* request, the token request included.
C36_BookingPostOnlyForFullName ==
    /\ [](\A s \in Sessions :
            (frame[s].op = "book_flight" /\ pc[s] = "request")
                => /\ frame[s].flight # NoFlight
                   /\ net[s] = <<AUTH_ENDPOINT, BOOKING_URL>>
                   /\ Len(split(frame[s].args.passenger_name)) >= 2)
    /\ [][\A s \in Sessions : \A a \in BookFlightArgs :
            (BookFlightCall(s, a) /\ Len(split(a.passenger_name)) = 1)
                => /\ pc'[s] = "done"
                   /\ result'[s].type = "dict" /\ result'[s].status = "error"
                   /\ net'[s] = <<>>]_vars

====
